---- MODULE Spec2Model ----
(***************************************************************************)
(* A model of scraper.py: the RSS selection, the scrape, the backup        *)
(* substitution, the word-count chunker, the question generator with its   *)
(* retry loop, and the assembly and write of data.json.                    *)
(*                                                                         *)
(* Texts are sequences of tokens.  A paragraph is one token carrying its   *)
(* word count; a chunk is paragraphs joined by the blank-line token.  A    *)
(* capability response is a sequence of markdown-fence, whitespace,        *)
(* bracket and JSON-value tokens, cleaned and parsed as the code does.     *)
(***************************************************************************)
EXTENDS Naturals, Sequences, FiniteSets

VARIABLES
    pc,              \* position of the process in main / generate_cat_questions
    GEMINI_API_KEY,  \* whether the credential is present in the environment
    data_json,       \* the file data.json: <<>> when absent, else <<dataset>>
    prior,           \* history: the content of data.json when the process started
    requests,        \* history: number of requests.get calls made
    writes,          \* history: number of times data.json was written
    reads,           \* history: number of times data.json was opened for reading
    items,           \* the feed items the RSS parse produced
    selected,        \* history: the value get_latest_essay_from_rss returned
    scraped,         \* history: <<title, paragraphs>> as scrape_essay returned them
    url, title, paragraphs,
    p_idx,           \* index of the next paragraph of the loop at line 149
    chunks, current_chunk, w_count,
    sealed,          \* history: w_count at the moment each chunk was appended
    data,            \* the dataset being assembled
    i,               \* index (1-based) of the passage being processed
    paused,          \* history: seconds slept at line 174 so far
    retries, attempt,
    calls,           \* history: generate_content invocations of the current call
    invocations,     \* history: generate_content invocations of the whole run
    capability,      \* what the capability answers on its next invocation
    outcomes,        \* history: the branch each attempt of the current call took
    served,          \* history: what each answer of the current call was
    backoff,         \* history: the sleeps of the retry loop of the current call
    questions        \* the value generate_cat_questions returned

envVars   == <<GEMINI_API_KEY, data_json, prior, requests, writes, reads>>
rssVars   == <<items, selected, scraped, url, title, paragraphs>>
chunkVars == <<p_idx, chunks, current_chunk, w_count, sealed>>
mainVars  == <<data, i, paused>>
genVars   == <<retries, attempt, calls, invocations, capability,
               outcomes, served, backoff, questions>>
vars      == <<pc, envVars, rssVars, chunkVars, mainVars, genVars>>

(***************************************************************************)
(* Bounds of the model.                                                    *)
(***************************************************************************)
MaxRetries    == 2   \* retry budgets 0..MaxRetries are tried on the generator
MaxQuestions  == 2   \* longest JSON array a response holds
MaxItems      == 2   \* longest feed
MaxParagraphs == 3   \* most <p> elements on a page

(***************************************************************************)
(* Program constants.                                                      *)
(***************************************************************************)
target_words    == 500   \* the threshold of line 153
min_words       == 25    \* the paragraph filter of line 65
default_retries == 3     \* retries=3 of line 75
passage_delay   == 5     \* time.sleep(5) of line 174

None == "None"

Last(s)  == s[Len(s)]
Front(s) == SubSeq(s, 1, Len(s) - 1)
Range(s) == {s[k] : k \in 1..Len(s)}

SeqsUpTo(S, n) == UNION {[1..k -> S] : k \in 0..n}

(***************************************************************************)
(* Capability responses, lines 104-105.  The three-backquote markdown     *)
(* fence is written ~~~ here.                                               *)
(***************************************************************************)
FenceJson == "~~~json"
Fence     == "~~~"
Ws        == " "
LBracket  == "["
RBracket  == "]"
Garbage   == "Sorry, I cannot help with that."

\* JSON values a response may hold:
\*   Q   an object with question, 4 options, correct_index in 0..3, explanation
\*   Qf  the same, its question text containing a code fence
\*   B   an object with a question key but 3 options and correct_index 7
\*   N   an object without a question key
\*   I   a JSON number
JsonValues == {"Q", "Qf", "B", "N", "I"}

\* The dummy question of lines 124-129.
Dummy == "AI Generation Failed for this passage. Please skip."

\* A response of the capability: generate_content raises (exc), or answers text.
Lists  == {<<LBracket>> \o s \o <<RBracket>> : s \in SeqsUpTo(JsonValues, MaxQuestions)}
Bodies == Lists \cup {<<"Q">>, <<Garbage>>}
Fenced(body) == <<FenceJson, Ws>> \o body \o <<Ws, Fence>>
Texts  == Bodies \cup {Fenced(b) : b \in Bodies}
Raises == [exc |-> TRUE, text |-> <<>>]
Responses == {Raises} \cup {[exc |-> FALSE, text |-> t] : t \in Texts}

\* str.strip(), lines 105 and 108: leading and trailing whitespace removed.
RECURSIVE lstrip(_)
lstrip(text) ==
    IF text # <<>> /\ Head(text) = Ws THEN lstrip(Tail(text)) ELSE text

RECURSIVE rstrip(_)
rstrip(text) ==
    IF text # <<>> /\ Last(text) = Ws THEN rstrip(Front(text)) ELSE text

strip(text) == rstrip(lstrip(text))

\* re.sub of the fence pattern by the empty string, line 108: every fence of the text is
\* removed, wherever it stands, the ones inside a JSON string included.
IsFence(tok) == tok \in {FenceJson, Fence}
Unfence(tok) == IF tok = "Qf" THEN "Q" ELSE tok
NotFence(tok) == ~IsFence(tok)
re_sub(raw_text) ==
    LET kept == SelectSeq(raw_text, NotFence)
    IN  [k \in 1..Len(kept) |-> Unfence(kept[k])]

\* json.loads, line 110: a bracketed array of values, or one value; anything
\* else raises.  ok = FALSE stands for JSONDecodeError.
json_loads(text) ==
    IF /\ Len(text) >= 2
       /\ Head(text) = LBracket
       /\ Last(text) = RBracket
       /\ \A k \in 2..(Len(text) - 1) : text[k] \in JsonValues
    THEN [ok |-> TRUE, list |-> TRUE, value |-> SubSeq(text, 2, Len(text) - 1)]
    ELSE IF Len(text) = 1 /\ text[1] \in JsonValues
    THEN [ok |-> TRUE, list |-> FALSE, value |-> text]
    ELSE [ok |-> FALSE, list |-> FALSE, value |-> <<>>]

\* "question" in questions[0], line 113: key membership on an object,
\* TypeError on a number.
InRaises(v)  == v = "I"
HasQuestion(v) == v \in {"Q", "Qf", "B"}

\* The branch one loop iteration takes on a response, lines 103-120:
\*   "return"  line 114, the parsed list is returned
\*   "invalid" line 116, the else branch: a message, no sleep
\*   "except"  lines 118-120, an exception was caught: a message and a sleep
\* The test of the type alone.
ListOnly(parsed) == parsed.list

ValidStructure(parsed) ==
    parsed.list /\ Len(parsed.value) > 0 /\ HasQuestion(parsed.value[1])

Branch(resp) ==
    IF resp.exc THEN "except"
    ELSE LET parsed == json_loads(strip(re_sub(strip(resp.text))))
         IN  IF ~parsed.ok THEN "except"
             ELSE IF parsed.list /\ Len(parsed.value) > 0 /\ InRaises(parsed.value[1])
             THEN "except"
             ELSE IF ValidStructure(parsed) THEN "return"
             ELSE "invalid"

Parsed(resp) == json_loads(strip(re_sub(strip(resp.text)))).value

\* Lines 124-129.
Fallback == <<Dummy>>

\* 2 ** attempt, line 120.
RECURSIVE Pow2(_)
Pow2(n) == IF n = 0 THEN 1 ELSE 2 * Pow2(n - 1)

(***************************************************************************)
(* What the specification of the generator calls a response (section 4.3): *)
(* the fence wrapper is normalised away, and the JSON is checked against   *)
(* the Question schema.                                                    *)
(***************************************************************************)
Unwrap(text) ==
    LET t1 == strip(text)
        t2 == IF t1 # <<>> /\ IsFence(Head(t1)) THEN Tail(t1) ELSE t1
        t3 == IF t2 # <<>> /\ IsFence(Last(t2)) THEN Front(t2) ELSE t2
    IN  strip(t3)

QuestionShaped(v) == v \in {"Q", "Qf", Dummy}

Content(resp) == json_loads(Unwrap(resp.text)).value

Conforming(resp) ==
    /\ ~resp.exc
    /\ LET doc == json_loads(Unwrap(resp.text))
       IN  /\ doc.ok
           /\ doc.list
           /\ Len(doc.value) > 0
           /\ \A k \in 1..Len(doc.value) : QuestionShaped(doc.value[k])

Class(resp) ==
    IF resp.exc THEN "exception"
    ELSE IF ~json_loads(Unwrap(resp.text)).ok THEN "unparseable"
    ELSE IF Conforming(resp) THEN "conforming"
    ELSE "violating"

\* What is remembered of an answer: its class, and its content when it conforms.
Served(resp) ==
    [class |-> Class(resp),
     content |-> IF Conforming(resp) THEN Content(resp) ELSE <<>>]


(***************************************************************************)
(* Feed, page and paragraphs.                                              *)
(***************************************************************************)
EssayA == "https://aeon.co/essays/a"
EssayB == "https://aeon.co/essays/b"
Video  == "https://aeon.co/videos/v"
NoLink == "<item without a link element>"
FeedItems == {EssayA, EssayB, Video, NoLink}

\* "/essays/" in link, line 43.
IsEssay(link) == link \in {EssayA, EssayB}

\* A feed lists a link once.
NoRepeat(its) ==
    \A j, k \in 1..Len(its) : (j # k /\ its[j] = its[k]) => its[j] = NoLink

\* requests.get raises (exc), or the feed parses into items.
RssResponses ==
    {[exc |-> TRUE, items |-> <<>>]}
    \cup {[exc |-> FALSE, items |-> s] :
            s \in {t \in SeqsUpTo(FeedItems, MaxItems) : NoRepeat(t)}}

\* The loop of lines 41-45 over the items from index k on: the first link that
\* contains /essays/; item.link.text of an item without a link raises, which
\* line 46 catches, and line 48 returns None.
RECURSIVE FirstEssayFrom(_, _)
FirstEssayFrom(its, k) ==
    IF k > Len(its) THEN None
    ELSE IF its[k] = NoLink THEN None
    ELSE IF IsEssay(its[k]) THEN its[k]
    ELSE FirstEssayFrom(its, k + 1)

\* The link of the first item, whatever it links to.
first_link(feed) ==
    IF feed.exc \/ feed.items = <<>> \/ feed.items[1] = NoLink THEN None
    ELSE feed.items[1]

get_latest_essay_from_rss(feed) ==
    IF feed.exc THEN None ELSE FirstEssayFrom(feed.items, 1)

\* A paragraph: its word count, and whether it contains "subscribe".
P(w) == [kind |-> "p", words |-> w, subscribe |-> FALSE]
BlankLine == [kind |-> "\n\n", words |-> 0, subscribe |-> FALSE]

WordCounts == {min_words, min_words + 1, target_words - (min_words + 1), target_words + 1}
RawParagraphs ==
    {[kind |-> "p", words |-> w, subscribe |-> b] : w \in WordCounts, b \in BOOLEAN}

H1Title == "The title in the h1 element"
DefaultTitle == "Aeon Essay"

PageResponses ==
    {[exc |-> TRUE, h1 |-> FALSE, ps |-> <<>>]}
    \cup {[exc |-> FALSE, h1 |-> h, ps |-> s] :
            h \in BOOLEAN, s \in SeqsUpTo(RawParagraphs, MaxParagraphs)}

\* The filter of line 65.
KeepParagraph(p) == p.words > min_words /\ ~p.subscribe

\* scrape_essay, lines 50-72: <<title, clean_text>>; None is <<None, <<>> >>.
scrape_essay(page) ==
    IF page.exc THEN <<None, <<>> >>
    ELSE LET clean_text == SelectSeq(page.ps, KeepParagraph)
         IN  IF clean_text = <<>> THEN <<None, <<>> >>
             ELSE <<IF page.h1 THEN H1Title ELSE DefaultTitle, clean_text>>

\* Lines 17-27 and 143: the four paragraphs of BACKUP_TEXT.
BACKUP_TITLE  == "The case for idleness"
BACKUP_SOURCE == "[https://aeon.co/essays/the-case-for-idleness](https://aeon.co/essays/the-case-for-idleness)"
BACKUP_PARAGRAPHS == <<P(86), P(81), P(61), P(71)>>

\* "\n\n".join(current_chunk), lines 154 and 157.
RECURSIVE join(_)
join(ps) ==
    IF Len(ps) = 0 THEN <<>>
    ELSE IF Len(ps) = 1 THEN <<ps[1]>>
    ELSE <<ps[1], BlankLine>> \o join(Tail(ps))

\* A chunk is sealed at every paragraph.
SealAlways(w) == w > 0

\* The test of line 153.
ShouldSeal(w) == w > target_words

\* The accumulator left after the loop is dropped.
\* The accumulator made a chunk even when it is empty.
FlushAlways(chs, cur) == Append(chs, join(cur))

NotFlushed(chs, cur) == chs

\* Line 157.
Flushed(chs, cur) == IF cur # <<>> THEN Append(chs, join(cur)) ELSE chs


(***************************************************************************)
(* The state the process starts in.                                        *)
(***************************************************************************)
\* The title is stored as the source too.
MetadataTitleOnly(t, src) == [title |-> t, source |-> t]

\* Line 160.
Metadata(t, src) == [title |-> t, source |-> src]

Dataset(t, src, ps) == [metadata |-> Metadata(t, src), passages |-> ps]

\* Only the first paragraph of the chunk is stored.
PassageExcerpt(n, txt, q) == [id |-> n, text |-> SubSeq(txt, 1, 1), questions |-> q]

\* The index of enumerate is stored as it is, from 0.
PassageFromZero(n, txt, q) == [id |-> n - 1, text |-> txt, questions |-> q]

\* Lines 168-172.
Passage(n, txt, q) == [id |-> n, text |-> txt, questions |-> q]

\* What an earlier run left in data.json: nothing, or a dataset of that run.
PriorFiles ==
    {<<>>}
    \cup {<<Dataset(H1Title, src, <<Passage(1, join(<<P(target_words + 1)>>), Fallback)>>)>> :
            src \in {EssayA, EssayB}}

\* The feeds the runs of main meet: unreachable, without an essay, two essays.
SampleFeeds ==
    {[exc |-> TRUE, items |-> <<>>],
     [exc |-> FALSE, items |-> <<Video>>],
     [exc |-> FALSE, items |-> <<EssayA, EssayB>>]}

\* The answers the capability gives in the runs of main.
SampleResponses ==
    {Raises,
     [exc |-> FALSE, text |-> <<Garbage>>],
     [exc |-> FALSE, text |-> <<LBracket, "N", RBracket>>],
     [exc |-> FALSE, text |-> Fenced(<<LBracket, "Q", RBracket>>)]}

NoCall ==
    /\ retries = default_retries
    /\ attempt = 0
    /\ calls = 0
    /\ outcomes = <<>>
    /\ served = <<>>
    /\ backoff = <<>>
    /\ questions = <<>>

Init ==
    /\ pc = "configure"
    /\ GEMINI_API_KEY \in BOOLEAN
    /\ data_json \in PriorFiles
    /\ prior = data_json
    /\ requests = 0
    /\ writes = 0
    /\ reads = 0
    /\ items = <<>>
    /\ selected = None
    /\ scraped = <<None, <<>> >>
    /\ url = None
    /\ title = None
    /\ paragraphs = <<>>
    /\ p_idx = 1
    /\ chunks = <<>>
    /\ current_chunk = <<>>
    /\ w_count = 0
    /\ sealed = <<>>
    /\ data = Dataset(None, None, <<>>)
    /\ i = 1
    /\ paused = 0
    /\ invocations = 0
    /\ capability \in SampleResponses
    /\ NoCall

(***************************************************************************)
(* main, lines 131-178, and the module body, lines 12-14.                  *)
(***************************************************************************)
\* Lines 12-14: the key is read; its absence stops nothing.
Configure ==
    /\ pc = "configure"
    /\ pc' = "rss"
    /\ UNCHANGED <<envVars, rssVars, chunkVars, mainVars, genVars>>

\* Line 132.
CallRss(feeds) ==
    /\ pc = "rss"
    /\ \E feed \in feeds :
         /\ items' = feed.items
         /\ selected' = get_latest_essay_from_rss(feed)
         /\ url' = selected'
    /\ requests' = requests + 1
    /\ pc' = IF url' # None THEN "scrape" ELSE "backup"
    /\ UNCHANGED <<GEMINI_API_KEY, data_json, prior, writes, reads, scraped, title,
                   paragraphs,
                   chunkVars, mainVars, genVars>>

\* Lines 136-137.
CallScrape(pages) ==
    /\ pc = "scrape"
    /\ \E page \in pages :
         /\ scraped' = scrape_essay(page)
         /\ title' = scraped'[1]
         /\ paragraphs' = scraped'[2]
    /\ requests' = requests + 1
    /\ pc' = "backup"
    /\ UNCHANGED <<GEMINI_API_KEY, data_json, prior, writes, reads, items, selected, url,
                   chunkVars, mainVars, genVars>>

\* The substitution left out.
BackupNever(ps) == FALSE

\* Lines 139-143: with no paragraphs, title, url and paragraphs become the backup.
UseBackup(ps) == ps = <<>>

\* The substitution leaving the link of the feed in place.
LoadBackupKeepUrl ==
    /\ pc = "backup"
    /\ IF UseBackup(paragraphs)
       THEN /\ title' = BACKUP_TITLE
            /\ paragraphs' = BACKUP_PARAGRAPHS
            /\ UNCHANGED url
       ELSE UNCHANGED <<title, url, paragraphs>>
    /\ pc' = "chunk"
    /\ UNCHANGED <<envVars, items, selected, scraped, chunkVars, mainVars, genVars>>

LoadBackup ==
    /\ pc = "backup"
    /\ IF UseBackup(paragraphs)
       THEN /\ title' = BACKUP_TITLE
            /\ url' = BACKUP_SOURCE
            /\ paragraphs' = BACKUP_PARAGRAPHS
       ELSE UNCHANGED <<title, url, paragraphs>>
    /\ pc' = "chunk"
    /\ UNCHANGED <<envVars, items, selected, scraped, chunkVars, mainVars, genVars>>

\* One iteration of the loop of lines 149-156.
ChunkStep ==
    /\ pc = "chunk"
    /\ p_idx <= Len(paragraphs)
    /\ LET p   == paragraphs[p_idx]
           cur == Append(current_chunk, p)
           w   == w_count + p.words
       IN  IF ShouldSeal(w)
           THEN /\ chunks' = Append(chunks, join(cur))
                /\ sealed' = Append(sealed, w)
                /\ current_chunk' = <<>>
                /\ w_count' = 0
           ELSE /\ current_chunk' = cur
                /\ w_count' = w
                /\ UNCHANGED <<chunks, sealed>>
    /\ p_idx' = p_idx + 1
    /\ UNCHANGED <<pc, envVars, rssVars, mainVars, genVars>>

\* Lines 157-162: the rest of the accumulator is the last chunk, and the
\* dataset is started.  (date_scraped, the date of the day, is left out.)
Assemble ==
    /\ pc = "chunk"
    /\ p_idx > Len(paragraphs)
    /\ chunks' = Flushed(chunks, current_chunk)
    /\ sealed' = IF current_chunk # <<>> THEN Append(sealed, w_count) ELSE sealed
    /\ data' = Dataset(title, url, <<>>)
    /\ i' = 1
    /\ pc' = "passage"
    /\ UNCHANGED <<envVars, rssVars, p_idx, current_chunk, w_count, paused, genVars>>

\* Lines 165-167: the next chunk is handed to generate_cat_questions.
ProcessPassage ==
    /\ pc = "passage"
    /\ i <= Len(chunks)
    /\ retries' = default_retries
    /\ pc' = "gen"
    /\ UNCHANGED <<envVars, rssVars, chunkVars, mainVars, attempt, calls, invocations,
                   capability, outcomes, served, backoff, questions>>

\* The sleep left out.
no_sleep(elapsed, secs) == elapsed

\* time.sleep(secs), line 174: the seconds slept so far.
time_sleep(elapsed, secs) == elapsed + secs

\* Lines 168-174: the passage is appended, then time.sleep(5).  The call is
\* over: its history is cleared.
AppendPassage ==
    /\ pc = "returned"
    /\ data' = [data EXCEPT !.passages = Append(@, Passage(i, chunks[i], questions))]
    /\ paused' = time_sleep(paused, passage_delay)
    /\ i' = i + 1
    /\ attempt' = 0
    /\ calls' = 0
    /\ outcomes' = <<>>
    /\ served' = <<>>
    /\ backoff' = <<>>
    /\ pc' = "passage"
    /\ UNCHANGED <<envVars, rssVars, chunkVars, retries, invocations, capability,
                   questions>>

\* The file opened in mode 'a': the dataset is added after what the file held.
dump_appending(file, d) == file \o <<d>>

\* open('data.json', 'w') and json.dump, lines 176-177: what the file holds then.
dump(file, d) == <<d>>

\* Lines 176-177: data.json is overwritten with the dataset.
WriteDataJson ==
    /\ pc = "passage"
    /\ i > Len(chunks)
    /\ data_json' = dump(data_json, data)
    /\ writes' = writes + 1
    /\ pc' = "done"
    /\ UNCHANGED <<GEMINI_API_KEY, prior, requests, reads, rssVars, chunkVars, mainVars,
                   genVars>>

(***************************************************************************)
(* generate_cat_questions, lines 75-129.                                   *)
(***************************************************************************)
\* The guard of line 76 left out.
KeyNeverMissing(key) == FALSE

\* Line 76.
KeyMissing(key) == ~key

GenEntry ==
    /\ pc = "gen"
    /\ IF KeyMissing(GEMINI_API_KEY)
       THEN /\ questions' = <<>>
            /\ pc' = "returned"
       ELSE /\ pc' = "attempt"
            /\ UNCHANGED questions
    /\ UNCHANGED <<envVars, rssVars, chunkVars, mainVars, retries, attempt, calls,
                   invocations, capability, outcomes, served, backoff>>

\* One attempt, then `retries` more.
MoreAttemptsInclusive(a, r) == a <= r

\* range(retries), line 102: whether the loop has another iteration.
MoreAttempts(a, r) == a < r

\* An answer of invalid structure does not count as an attempt.
NextAttemptExceptOnly(a, branch) == IF branch = "invalid" THEN a ELSE a + 1

\* Line 102: the loop variable after an iteration that did not return,
\* whichever branch it took.
NextAttempt(a, branch) == a + 1

\* Branch, Parsed and Served tabulated over the responses of the capability.
BranchOf == [resp \in Responses |-> Branch(resp)]
ParsedOf == [resp \in Responses |-> IF resp.exc THEN <<>> ELSE Parsed(resp)]
ServedOf == [resp \in Responses |-> Served(resp)]

\* One iteration of the loop of lines 102-120.  The capability answers what
\* it had ready, and readies its next answer, one of `next`.
Attempt(next) ==
    /\ pc = "attempt"
    /\ MoreAttempts(attempt, retries)
    /\ capability' \in next
    /\ calls' = calls + 1
    /\ invocations' = invocations + 1
    /\ outcomes' = Append(outcomes, BranchOf[capability])
    /\ served' = Append(served, ServedOf[capability])
    /\ IF BranchOf[capability] = "return"
       THEN /\ questions' = ParsedOf[capability]
            /\ pc' = "returned"
            /\ UNCHANGED <<attempt, backoff>>
       ELSE /\ backoff' = IF BranchOf[capability] = "except"
                          THEN Append(backoff, Pow2(attempt))
                          ELSE backoff
            /\ attempt' = NextAttempt(attempt, BranchOf[capability])
            /\ UNCHANGED <<pc, questions>>
    /\ UNCHANGED <<envVars, rssVars, chunkVars, mainVars, retries>>

\* Lines 122-129: the loop is over, the dummy question is returned.
Exhausted ==
    /\ pc = "attempt"
    /\ ~MoreAttempts(attempt, retries)
    /\ questions' = Fallback
    /\ pc' = "returned"
    /\ UNCHANGED <<envVars, rssVars, chunkVars, mainVars, retries, attempt, calls,
                   invocations, capability, outcomes, served, backoff>>

(***************************************************************************)
(* Spec: a run of the program.                                             *)
(***************************************************************************)
Next ==
    \/ Configure
    \/ CallRss(SampleFeeds)
    \/ CallScrape(PageResponses)
    \/ LoadBackup
    \/ ChunkStep
    \/ Assemble
    \/ ProcessPassage
    \/ GenEntry
    \/ Attempt(SampleResponses)
    \/ Exhausted
    \/ AppendPassage
    \/ WriteDataJson

Spec == Init /\ [][Next]_vars

\* A run whose every external call returns and whose every sleep ends: the
\* program goes on as long as it has a step to take.
FairSpec == Spec /\ WF_vars(Next)

(***************************************************************************)
(* SpecAcquire: the acquisition stage, for every feed and every page.      *)
(***************************************************************************)
NextAcquire ==
    \/ Configure
    \/ CallRss(RssResponses)
    \/ CallScrape(PageResponses)
    \/ LoadBackup

SpecAcquire == Init /\ [][NextAcquire]_vars

(***************************************************************************)
(* SpecGen: generate_cat_questions called on one chunk, for every retry     *)
(* budget and every answer of the capability.                              *)
(***************************************************************************)
InitGen ==
    /\ pc = "gen"
    /\ GEMINI_API_KEY \in BOOLEAN
    /\ data_json = <<>>
    /\ prior = <<>>
    /\ requests = 1
    /\ writes = 0
    /\ reads = 0
    /\ items = <<>>
    /\ selected = None
    /\ scraped = <<None, <<>> >>
    /\ url = BACKUP_SOURCE
    /\ title = BACKUP_TITLE
    /\ paragraphs = BACKUP_PARAGRAPHS
    /\ p_idx = Len(BACKUP_PARAGRAPHS) + 1
    /\ chunks = <<join(BACKUP_PARAGRAPHS)>>
    /\ current_chunk = BACKUP_PARAGRAPHS
    /\ w_count = 86 + 81 + 61 + 71
    /\ sealed = <<w_count>>
    /\ data = Dataset(BACKUP_TITLE, BACKUP_SOURCE, <<>>)
    /\ i = 1
    /\ paused = 0
    /\ retries \in 0..MaxRetries
    /\ attempt = 0
    /\ calls = 0
    /\ invocations = 0
    /\ capability \in Responses
    /\ outcomes = <<>>
    /\ served = <<>>
    /\ backoff = <<>>
    /\ questions = <<>>

NextGen ==
    \/ GenEntry
    \/ Attempt(Responses)
    \/ Exhausted

SpecGen == InitGen /\ [][NextGen]_vars


(***************************************************************************)
(* Claims about generate_cat_questions, checked under SpecGen.             *)
(***************************************************************************)
Returned == pc = "returned"

\* The capability has answered nothing conforming, and would not on one more
\* invocation.
AlwaysMalformed ==
    /\ \A k \in 1..Len(served) : served[k].class # "conforming"
    /\ Class(capability) # "conforming"

\* C1: with a credential and a capability that answers malformed output on
\* every attempt, the call returns the fallback record after exactly
\* retries + 1 invocations.
C1_FallbackAfterRetriesPlusOne ==
    (Returned /\ GEMINI_API_KEY /\ AlwaysMalformed)
        => (questions = Fallback /\ calls = retries + 1)

\* The first answer was malformed or an exception and the attempt failed on it,
\* and the second answer (received, or the one the capability holds ready for
\* its second invocation) conforms to the schema.
FirstFailed ==
    /\ Len(served) >= 1
    /\ served[1].class # "conforming"
    /\ outcomes[1] # "return"

SecondConforms ==
    IF Len(served) >= 2 THEN served[2].class = "conforming"
    ELSE Len(served) = 1 /\ Class(capability) = "conforming"

\* C2: with a credential and a budget allowing a retry, when the first
\* attempt fails and the capability answers schema-conforming JSON on the
\* second, the call makes exactly 2 invocations and returns the content of the
\* second answer unchanged.
C2_SecondAnswerReturned ==
    (Returned /\ GEMINI_API_KEY /\ retries >= 1 /\ FirstFailed /\ SecondConforms)
        => (calls = 2 /\ Len(served) = 2 /\ questions = served[2].content)

\* C10: every returned value other than the fallback record holds only
\* questions of the Question shape (4 options, correct_index in 0..3).
C10_ReturnedQuestionsShaped ==
    (Returned /\ questions # Fallback)
        => \A k \in 1..Len(questions) : QuestionShaped(questions[k])


(***************************************************************************)
(* Claims about the chunker, checked under Spec.                           *)
(***************************************************************************)
Chunking == pc = "chunk"
Chunked  == pc \in {"passage", "gen", "attempt", "returned", "done"}

\* A chunk read paragraph by paragraph: its text split at the blank lines.
IsParagraph(tok) == tok # BlankLine
split(chunk) == SelectSeq(chunk, IsParagraph)

RECURSIVE ParagraphsOf(_)
ParagraphsOf(chs) ==
    IF chs = <<>> THEN <<>> ELSE split(Head(chs)) \o ParagraphsOf(Tail(chs))

\* C3: the chunks, read chunk by chunk and paragraph by paragraph, are the
\* input paragraphs, each once, whole and in order: after every paragraph of
\* the loop (with the open accumulator) and once chunking is over.
C3_ChunksArePartition ==
    /\ Chunking =>
         ParagraphsOf(chunks) \o current_chunk = SubSeq(paragraphs, 1, p_idx - 1)
    /\ Chunked =>
         /\ ParagraphsOf(chunks) = paragraphs
         /\ \A k \in 1..Len(chunks) : chunks[k] = join(split(chunks[k]))

C3_Witness ==
    /\ Chunked
    /\ Len(paragraphs) = 3
    /\ Len(chunks) = 2
    /\ Len(split(chunks[1])) = 2
    /\ paragraphs[1] # paragraphs[2]

\* C4: after each paragraph is processed the open accumulator holds strictly
\* fewer than target_words words.
C4_OpenBelowTarget == w_count < target_words

\* C5: every chunk but possibly the last had a running word count of at
\* least target_words when it was sealed.
C5_SealedAtTarget ==
    /\ Len(sealed) = Len(chunks)
    /\ \A k \in 1..Len(sealed) :
         (k < Len(sealed) \/ Chunking) => sealed[k] >= target_words

C5_Witness ==
    /\ Chunked
    /\ Len(chunks) = 2
    /\ sealed[1] >= target_words
    /\ sealed[2] < target_words


(***************************************************************************)
(* Claims about the acquisition stage and the persisted dataset.           *)
(***************************************************************************)
Acquired == pc \notin {"configure", "rss", "scrape"}
Done == pc = "done"

\* The feed was unreachable or gave no link, or the page gave no paragraphs.
AcquisitionFailed == Acquired /\ scraped[2] = <<>>

\* C6 as stated: an acquisition failure ends the run with data.json unwritten.
C6_FailureLeavesFileUntouched ==
    AcquisitionFailed => (writes = 0 /\ data_json = prior)

\* C6 as amended: an acquisition failure does not end the run; once past the
\* substitution the run works on the built-in backup essay, and it ends by
\* overwriting data.json, once, with the dataset of the backup essay.
C6_FailureWritesBackup ==
    /\ (AcquisitionFailed /\ pc # "backup") =>
         /\ url = BACKUP_SOURCE
         /\ title = BACKUP_TITLE
         /\ paragraphs = BACKUP_PARAGRAPHS
    /\ (AcquisitionFailed /\ Done) =>
         /\ writes = 1
         /\ data_json = <<data>>
         /\ data.metadata = [title |-> BACKUP_TITLE, source |-> BACKUP_SOURCE]
         /\ Len(data.passages) = 1
         /\ data.passages[1].text = join(BACKUP_PARAGRAPHS)

C6_Witness ==
    /\ AcquisitionFailed
    /\ Done
    /\ selected # None
    /\ prior # <<>>
    /\ data_json # prior

\* C7 as stated: without a credential nothing is done: no fetch, no chunking,
\* no generation call, no write.
C7_NoKeyNoWork ==
    ~GEMINI_API_KEY =>
        /\ requests = 0
        /\ chunks = <<>>
        /\ pc \notin {"gen", "attempt", "returned"}
        /\ writes = 0

\* C7 as amended: without a credential the run is not aborted; the absence
\* is handled in each call of generate_cat_questions, which returns an empty
\* list without invoking the capability or sleeping, and the run ends by
\* writing the dataset, one passage per chunk, each with no questions.
C7_NoKeyEmptyQuestions ==
    ~GEMINI_API_KEY =>
        /\ invocations = 0
        /\ backoff = <<>>
        /\ pc # "attempt"
        /\ Returned => questions = <<>>
        /\ Done =>
             /\ writes = 1
             /\ data_json = <<data>>
             /\ Len(data.passages) = Len(chunks)
             /\ \A k \in 1..Len(chunks) : data.passages[k].questions = <<>>

C7_Witness ==
    /\ ~GEMINI_API_KEY
    /\ Done
    /\ requests = 2
    /\ Len(chunks) = 2
    /\ data_json = <<data>>

\* The source of the dataset the previous run persisted, None when absent.
previous_source == IF prior = <<>> THEN None ELSE prior[1].metadata.source

\* The candidates of a feed: its essay links, in feed order.
Candidates(its) == SelectSeq(its, IsEssay)

Selection == pc \in {"scrape", "backup"}

\* C8 as stated: with more than one candidate and the previous source equal
\* to the first candidate's link, a later candidate is selected, never the
\* first; with no previous source the first candidate is selected.
C8_RepeatIsSkipped ==
    Selection =>
        LET c == Candidates(items)
        IN  /\ (Len(c) > 1 /\ previous_source = c[1]) =>
                 (selected # c[1] /\ selected \in Range(Tail(c)))
            /\ (Len(c) >= 1 /\ previous_source = None /\ NoLink \notin Range(items)) =>
                 selected = c[1]

\* An item all of whose predecessors are links to something else than essays.
Reached(its, k) == \A j \in 1..(k - 1) : its[j] # NoLink /\ ~IsEssay(its[j])

\* C8 as amended: the previous source plays no part (data.json is not read):
\* the selection is the first essay link of the feed, the repeated one
\* included, and None when no essay link is reached.
C8_FirstEssaySelected ==
    Selection =>
        /\ data_json = prior
        /\ selected # None =>
             \E k \in 1..Len(items) :
                 items[k] = selected /\ IsEssay(items[k]) /\ Reached(items, k)
        /\ selected = None =>
             \A k \in 1..Len(items) : ~(IsEssay(items[k]) /\ Reached(items, k))

C8_Witness ==
    /\ Selection
    /\ Len(Candidates(items)) > 1
    /\ previous_source = Candidates(items)[1]
    /\ selected = previous_source

\* C9 as stated: the source of the persisted dataset is the link the
\* selector chose, whatever happened afterwards.
C9_SourceIsSelected ==
    (Done /\ selected # None) => data_json[1].metadata.source = selected

\* C9 as amended: the source of the persisted dataset is the link the
\* selector chose when the scrape of that link gave paragraphs, and
\* BACKUP_SOURCE otherwise.
C9_SourceIsSelectedOrBackup ==
    Done =>
        data_json[1].metadata.source =
            IF scraped[2] # <<>> THEN selected ELSE BACKUP_SOURCE

C9_Witness ==
    /\ Done
    /\ selected = EssayA
    /\ scraped[2] # <<>>
    /\ data_json[1].metadata.source = EssayA
    /\ Len(data_json[1].passages) = 2


(***************************************************************************)
(* Claims about the passages of the dataset, checked under Spec.           *)
(***************************************************************************)
InLoop == pc \in {"passage", "gen", "attempt", "returned", "done"}

\* C11: no passage is dropped: the dataset holds one record per chunk
\* processed so far, in chunk order, the text of the k-th being the whole
\* k-th chunk, and the dataset written holds one for every chunk, whether
\* the generation succeeded, fell back or was skipped.
C11_OnePassagePerChunk ==
    /\ InLoop =>
         /\ Len(data.passages) = i - 1
         /\ \A k \in 1..Len(data.passages) : data.passages[k].text = chunks[k]
    /\ Done =>
         /\ data_json = <<data>>
         /\ Len(data_json[1].passages) = Len(chunks)
         /\ \A k \in 1..Len(chunks) : data_json[1].passages[k].text = chunks[k]

C11_Witness ==
    /\ Done
    /\ Len(chunks) = 2
    /\ Len(split(chunks[1])) = 2
    /\ data_json[1].passages[1].questions = Fallback
    /\ data_json[1].passages[2].questions \notin {Fallback, <<>>}

\* C12: the ids of the passages are 1..n, in chunk order, without gap or
\* duplicate, n being the number of chunks in the dataset written.
C12_IdsContiguous ==
    /\ InLoop => \A k \in 1..Len(data.passages) : data.passages[k].id = k
    /\ Done =>
         /\ Len(data_json[1].passages) = Len(chunks)
         /\ \A k \in 1..Len(chunks) : data_json[1].passages[k].id = k

C12_Witness ==
    /\ Done
    /\ Len(chunks) = 3
    /\ data_json[1].passages[2].questions = Fallback
    /\ data_json[1].passages[3].id = 3

(***************************************************************************)
(* Claims about failures of the generation stage, checked under Spec.      *)
(***************************************************************************)
InCall == pc \in {"attempt", "returned"}

\* The attempts of the current call that did not return.
Failed(outs) == SelectSeq(outs, LAMBDA o : o # "return")

\* C13: a failure of the generation stage never aborts the run.  Every failed
\* attempt, whether the capability raised or answered invalid JSON or JSON of
\* invalid structure, uses up one attempt of the same budget of the passage;
\* a call that never succeeds returns the placeholder after exactly that
\* budget; the run always has a next step until the file is written, and it
\* is written with one passage per chunk.
C13_FailuresContained ==
    /\ InCall =>
         /\ Len(outcomes) = calls
         /\ calls <= retries
         /\ attempt = Len(Failed(outcomes))
    /\ (Returned /\ GEMINI_API_KEY /\ Failed(outcomes) = outcomes) =>
         (calls = retries /\ questions = Fallback)
    /\ ~Done => ENABLED Next
    /\ Done =>
         /\ writes = 1
         /\ Len(data_json[1].passages) = Len(chunks)

C13_Witness ==
    /\ Done
    /\ Len(chunks) = 2
    /\ data_json[1].passages[1].questions = Fallback
    /\ data_json[1].passages[2].questions \notin {Fallback, <<>>}
    /\ invocations = default_retries + 3

\* C14: between any two consecutive attempts of a call there is a delay of
\* 2^k seconds, k counting the failed attempts from 0, whatever the kind of
\* the failure: the k-th delay of the call precedes the (k+1)-th invocation.
C14_BackoffBetweenAttempts ==
    InCall =>
        \A k \in 1..(calls - 1) : k <= Len(backoff) /\ backoff[k] = Pow2(k - 1)

(***************************************************************************)
(* Claims about the accesses to data.json, checked under Spec.             *)
(***************************************************************************)
\* C15 as stated: data.json is read exactly once, before the selection, and
\* written exactly once, at the end; no write before the last passage.
C15_ReadOnceWrittenOnce ==
    /\ pc \notin {"configure", "rss"} => reads = 1
    /\ ~Done => writes = 0
    /\ Done => writes = 1

\* C15 as amended: data.json is never read; it is written exactly once, as the
\* last step of the run, after the last passage was analysed, and the write
\* replaces whatever the file held by the dataset of this run.
C15_NeverReadWrittenOnce ==
    /\ reads = 0
    /\ ~Done => (writes = 0 /\ data_json = prior)
    /\ Done =>
         /\ writes = 1
         /\ data_json = <<data>>
         /\ Len(data.passages) = Len(chunks)
         /\ i = Len(chunks) + 1

C15_Witness ==
    /\ Done
    /\ prior # <<>>
    /\ writes = 1
    /\ reads = 0
    /\ Len(data_json) = 1
    /\ Len(data_json[1].passages) = 2

(***************************************************************************)
(* Claims about the order of the analysis, checked under Spec.             *)
(***************************************************************************)
Analysing == pc \in {"gen", "attempt", "returned"}

\* While passage i is analysed the passages before it are complete and in
\* the dataset, and the delay after each of them has elapsed.
EarlierPassagesOver ==
    Analysing =>
        /\ i \in 1..Len(chunks)
        /\ Len(data.passages) = i - 1
        /\ paused = (i - 1) * passage_delay
        /\ calls <= retries

\* An invocation belongs to the passage under analysis and leaves the passage
\* counter, the dataset and the delays alone; the analysis moves to the next
\* passage only from a call that has returned, by appending its passage and
\* sleeping passage_delay.
OnePassageAtATime ==
    /\ invocations' # invocations =>
         /\ pc = "attempt"
         /\ calls' = calls + 1
         /\ UNCHANGED <<i, data, paused>>
    /\ i' # i =>
         \/ pc = "chunk" /\ i' = 1
         \/ /\ pc = "returned"
            /\ i' = i + 1
            /\ Len(data'.passages) = i
            /\ paused' = paused + passage_delay
            /\ calls' = 0
            /\ pc' = "passage"

\* C16: the analysis is strictly sequential in passage order: the attempts
\* for passage i+1 start only when the analysis of passage i is over
\* (returned questions or the placeholder appended) and the fixed delay that
\* follows every passage has elapsed; attempts of different passages never
\* interleave.
C16_StrictlySequential == []EarlierPassagesOver /\ [][OnePassageAtATime]_vars

C16_Witness ==
    /\ pc = "attempt"
    /\ i = 2
    /\ calls = 1
    /\ data.passages[1].questions = Fallback
    /\ paused = passage_delay

(***************************************************************************)
(* Claims about the texts of the passages, checked under Spec.             *)
(***************************************************************************)
\* A text that is not empty: it holds a paragraph, and each of its paragraphs
\* has words.
NonEmptyText(txt) ==
    /\ txt # <<>>
    /\ split(txt) # <<>>
    /\ \A k \in 1..Len(split(txt)) : split(txt)[k].words > 0

\* C17: every passage has a non-empty text, scraped paragraphs or backup
\* paragraphs: the paragraphs handed to the chunker are never none, every
\* chunk and every passage of the dataset, in memory and written, has text.
C17_TextsNonEmpty ==
    /\ pc = "chunk" => paragraphs # <<>>
    /\ \A k \in 1..Len(chunks) : NonEmptyText(chunks[k])
    /\ InLoop => \A k \in 1..Len(data.passages) : NonEmptyText(data.passages[k].text)
    /\ Done => \A k \in 1..Len(data_json[1].passages) :
                   NonEmptyText(data_json[1].passages[k].text)

C17_Witness ==
    /\ Done
    /\ scraped[2] # <<>>
    /\ current_chunk = <<>>
    /\ Len(data_json[1].passages) = 2
    /\ w_count = 0

(***************************************************************************)
(* Claims about the backup substitution, checked under Spec.               *)
(***************************************************************************)
Substituted == pc \notin {"configure", "rss", "scrape", "backup"}

AllBackup ==
    /\ title = BACKUP_TITLE
    /\ url = BACKUP_SOURCE
    /\ paragraphs = BACKUP_PARAGRAPHS

AllScraped ==
    /\ selected # None
    /\ url = selected
    /\ title = scraped[1]
    /\ paragraphs = scraped[2]
    /\ paragraphs # BACKUP_PARAGRAPHS

\* C18: the backup substitution is all or nothing: when the feed gave no link
\* or the scrape gave no paragraphs, title, source and paragraphs are all the
\* backup values, and otherwise all three are those of the feed and the page;
\* the dataset, in memory and written, has the metadata and the paragraphs of
\* the same one of the two.
C18_BackupAllOrNothing ==
    /\ Substituted => IF scraped[2] = <<>> THEN AllBackup ELSE AllScraped
    /\ InLoop => data.metadata = [title |-> title, source |-> url]
    /\ Done =>
         /\ data_json[1].metadata = [title |-> title, source |-> url]
         /\ ParagraphsOf([k \in 1..Len(data_json[1].passages) |->
                             data_json[1].passages[k].text]) = paragraphs

C18_Witness ==
    /\ Done
    /\ selected = EssayA
    /\ scraped[2] = <<>>
    /\ data_json[1].metadata = [title |-> BACKUP_TITLE, source |-> BACKUP_SOURCE]
    /\ data_json[1].passages[1].text = join(BACKUP_PARAGRAPHS)

(***************************************************************************)
(* Termination and the number of invocations, checked under FairSpec.      *)
(***************************************************************************)
\* The capability is invoked at most retries times for each chunk, and the
\* dataset written has at least one passage.
InvocationsBounded ==
    /\ InCall => invocations <= (i - 1) * default_retries + calls
    /\ InCall => calls <= retries
    /\ InLoop => invocations <= Len(chunks) * default_retries
    /\ Done =>
         /\ writes = 1
         /\ Len(data_json) = 1
         /\ Len(data_json[1].passages) >= 1

\* C19: every run of main terminates, whatever the feed, the page and the
\* capability answer, and ends by writing a dataset of at least one passage;
\* the invocations of the capability in a run are at most the number of
\* chunks times the retry budget.
C19_TerminatesWithDataset == <>Done /\ []InvocationsBounded

C19_Witness ==
    /\ Done
    /\ selected = None
    /\ Len(chunks) = 1
    /\ invocations = Len(chunks) * default_retries
    /\ data_json[1].passages[1].questions = Fallback

(***************************************************************************)
(* Claims about the value generate_cat_questions returns, under SpecGen.   *)
(***************************************************************************)
\* The returned value is the list of an answer that passed the test of
\* line 113.
ValidatedAnswer ==
    /\ outcomes # <<>>
    /\ Last(outcomes) = "return"
    /\ Len(outcomes) = Len(Failed(outcomes)) + 1
    /\ Len(questions) > 0
    /\ HasQuestion(questions[1])

\* C20: with a credential the call returns a non-empty list, the list of a
\* validated answer or the single placeholder question; the empty list is
\* returned only without a credential, and then the capability was not
\* invoked and no backoff delay took place.
C20_EmptyOnlyWithoutKey ==
    Returned =>
        /\ GEMINI_API_KEY =>
             /\ questions # <<>>
             /\ questions = Fallback \/ ValidatedAnswer
             /\ questions = Fallback => Failed(outcomes) = outcomes
        /\ questions = <<>> <=> ~GEMINI_API_KEY
        /\ ~GEMINI_API_KEY =>
             /\ calls = 0
             /\ invocations = 0
             /\ outcomes = <<>>
             /\ backoff = <<>>

C20_Witness ==
    /\ Returned
    /\ GEMINI_API_KEY
    /\ outcomes = <<"invalid", "return">>
    /\ served[1].class = "violating"
    /\ Len(questions) = 2

====
